---- MODULE Spec2Model ----
(***************************************************************************)
(* Model of the Aquadoge presale program (src/src/lib.rs).                 *)
(*                                                                         *)
(* One Presale account, a handful of identities with lamport balances,     *)
(* and one action per instruction handler.  Each action is one whole       *)
(* instruction: a handler that returns Err (or panics) aborts the          *)
(* transaction, so nothing but the record of the call changes.             *)
(*                                                                         *)
(* u64 is modelled at a reduced width (Width bits); all lamport and rate   *)
(* arithmetic is done modulo 2^Width exactly where the source uses the     *)
(* bare operators -= and += .  Whether such an operator panics or wraps    *)
(* on overflow is decided by the build profile (overflow-checks), which    *)
(* the source file does not fix: overflow_checks is chosen at Init.        *)
(* The model stops at the handler's own result; what the hosting runtime   *)
(* does with an Ok result afterwards is outside it.                        *)
(***************************************************************************)
EXTENDS Integers, Sequences, FiniteSets, TLC

\* ------------------------------------------------------------------ bounds
Width == 2                      \* bits of the scaled-down u64
Modulus == 2 ^ Width
MaxU64 == Modulus - 1           \* u64::MAX at this width

\* --------------------------------------------------------------- constants
RentMin == 1                    \* rent-exempt minimum of the 500-byte account
InitBal == (Modulus \div 2) - 1  \* lamports each wallet starts with: the total supply stays below 2^Width

\* -------------------------------------------------------------- identities
P == "P"                        \* address of the presale account
Wallets == {"A", "B"}           \* system-owned wallets (can pay and sign)
Keys == Wallets \cup {P}        \* every identity an instruction can name
NoKey == "-"

Rates == {0, MaxU64}            \* u64 rate arguments
Amounts == {0, 1, RentMin + 1, MaxU64}  \* u64 amount arguments
EvmAddrs == {"", "0xE"}         \* evm_address strings (never validated)

\* ErrorCode enum of the program; Overflow, Underflow and
\* InvalidAmountTransferred are declared but no handler returns them.
ErrorCode == {"PresaleIsPaused", "Overflow", "Underflow", "Unauthorized",
              "InvalidPaymentWallet", "InvalidAmountTransferred"}

VARIABLES
  allocated,        \* the presale account exists (Initialize.presale, init)
  presale,          \* the Presale account data: owner, rate, payment_wallet, is_paused
  lamports,         \* lamport balance of every identity, P included
  overflow_checks,  \* build profile: TRUE = arithmetic overflow panics, FALSE = wraps
  log,              \* program log (msg!) of the latest instruction, one entry per call
  last              \* the latest instruction: name, accounts, arguments, result

vars == <<allocated, presale, lamports, overflow_checks, log, last>>

\* The Presale struct; EmptyPresale is the not-yet-created account.
Presale(o, r, w, p) == [owner |-> o, rate |-> r, payment_wallet |-> w, is_paused |-> p]
EmptyPresale == Presale(NoKey, 0, NoKey, FALSE)

\* One record per call: caller is the signer the handler authorises or
\* charges, key the second account (recipient, payment wallet, new wallet),
\* amount the u64 argument, flag the pause argument.  The arguments that
\* only reach the log (stake, evm_address) are seen in the log alone.
Call(op, c, k, a, f, res) ==
  [op |-> op, caller |-> c, key |-> k, amount |-> a, flag |-> f, result |-> res]

LogEntryAnonymous(kind, who, a, r, s, t) ==
  [kind |-> kind, who |-> NoKey, amount |-> a, rate |-> r, stake |-> s, text |-> t]
LogEntry(kind, who, a, r, s, t) ==
  [kind |-> kind, who |-> who, amount |-> a, rate |-> r, stake |-> s, text |-> t]

\* u64 subtraction and addition as the bare operators compute them.
SubU64(a, b) == [ovf |-> a < b, val |-> (a - b + Modulus) % Modulus]
AddU64(a, b) == [ovf |-> a + b > MaxU64, val |-> (a + b) % Modulus]

\* require_keys_eq!(presale.owner, ctx.accounts.owner.key(), Unauthorized)
IsOwnerAny(rec, k) == TRUE
IsOwnerAndActive(rec, k) == rec.owner = k /\ ~rec.is_paused
IsOwner(rec, k) == rec.owner = k

\* The field writes of initialize, change_rate, change_payment_wallet and
\* pause_presale.
NewPresaleOwnerIsWallet(owner, payment_wallet, rate) ==
  Presale(payment_wallet, rate, payment_wallet, FALSE)
NewPresaleStartsPaused(owner, payment_wallet, rate) ==
  Presale(owner, rate, payment_wallet, TRUE)
NewPresale(owner, payment_wallet, rate) == Presale(owner, rate, payment_wallet, FALSE)
SetRateAndUnpause(rec, new_rate) == [rec EXCEPT !.rate = new_rate, !.is_paused = FALSE]
SetRateNonZero(rec, new_rate) ==
  [rec EXCEPT !.rate = IF new_rate = 0 THEN rec.rate ELSE new_rate]
SetRate(rec, new_rate) == [rec EXCEPT !.rate = new_rate]
SetPaymentWalletDropped(rec, new_wallet) == rec
SetPaymentWallet(rec, new_wallet) == [rec EXCEPT !.payment_wallet = new_wallet]
SetPausedAlwaysTrue(rec, pause) == [rec EXCEPT !.is_paused = TRUE]
SetPausedToggle(rec, pause) == [rec EXCEPT !.is_paused = ~rec.is_paused]
SetPaused(rec, pause) == [rec EXCEPT !.is_paused = pause]

\* The shape of the state: the Presale struct's field types, u64 balances,
\* and the record of the latest call.
TypeOK ==
  /\ allocated \in BOOLEAN
  /\ overflow_checks \in BOOLEAN
  /\ presale.owner \in Wallets \cup {NoKey}
  /\ presale.rate \in 0..MaxU64
  /\ presale.payment_wallet \in Keys \cup {NoKey}
  /\ presale.is_paused \in BOOLEAN
  /\ \A k \in Keys : lamports[k] \in 0..MaxU64
  /\ Len(log) <= 1
  /\ last.caller \in Keys \cup {NoKey} /\ last.amount \in 0..MaxU64

\* An instruction that fails: the transaction is rolled back, only the
\* record of the call and its (empty) log remain.
Fail(call) ==
  /\ last' = call
  /\ log' = <<>>
  /\ UNCHANGED <<allocated, presale, lamports, overflow_checks>>

Init ==
  /\ allocated = FALSE
  /\ presale = EmptyPresale
  /\ lamports = [k \in Keys |-> IF k = P THEN 0 ELSE InitBal]
  /\ overflow_checks \in BOOLEAN
  /\ log = <<>>
  /\ last = Call("none", NoKey, NoKey, 0, FALSE, "Ok")

\* initialize: the init constraint creates the account, funded by the payer
\* up to the rent-exempt minimum, and fails when the account already exists.
initialize(owner, payment_wallet, rate) ==
  LET call(res) == Call("initialize", owner, payment_wallet, rate, FALSE, res)
      due == IF lamports[P] >= RentMin THEN 0 ELSE RentMin - lamports[P]
  IN  IF allocated THEN Fail(call("AlreadyInUse"))
      ELSE IF lamports[owner] < due THEN Fail(call("InsufficientFunds"))
      ELSE /\ allocated' = TRUE
           /\ lamports' = [lamports EXCEPT ![owner] = @ - due, ![P] = @ + due]
           /\ presale' = NewPresale(owner, payment_wallet, rate)
           /\ log' = <<>>
           /\ last' = call("Ok")
           /\ UNCHANGED overflow_checks

\* stake_tokens: logs buyer and amount, nothing else.
stake_tokens(buyer, amount) ==
  /\ allocated
  /\ log' = <<LogEntry("StakeLog", buyer, amount, 0, FALSE, "")>>
  /\ last' = Call("stake_tokens", buyer, NoKey, amount, FALSE, "Ok")
  /\ UNCHANGED <<allocated, presale, lamports, overflow_checks>>

\* claim_evm: logs user and the address string, nothing else.
claim_evm(user, evm_address) ==
  /\ allocated
  /\ log' = <<LogEntry("ClaimEVMLog", user, 0, 0, FALSE, evm_address)>>
  /\ last' = Call("claim_evm", user, NoKey, 0, FALSE, "Ok")
  /\ UNCHANGED <<allocated, presale, lamports, overflow_checks>>

\* system_instruction::transfer through invoke: the System Program moves
\* amount from one account to another with checked arithmetic, or fails.
TransferError(bal, from, to, amount) ==
  IF bal[from] < amount THEN "InsufficientFunds"
  ELSE IF bal[to] + amount > MaxU64 THEN "ArithmeticOverflow"
  ELSE "Ok"
TransferNoDebit(bal, from, to, amount) == [bal EXCEPT ![to] = @ + amount]
Transfer(bal, from, to, amount) ==
  [bal EXCEPT ![from] = @ - amount, ![to] = @ + amount]

\* buy_tokens: the three checks in source order, then the transfer, then the log.
BuyErrorNoPause(rec, buyer, payment_wallet) ==
  IF rec.payment_wallet # payment_wallet THEN "InvalidPaymentWallet"
  ELSE IF buyer = payment_wallet THEN "InvalidArgument"
  ELSE "Ok"
BuyErrorWalletFirst(rec, buyer, payment_wallet) ==
  IF rec.payment_wallet # payment_wallet THEN "InvalidPaymentWallet"
  ELSE IF rec.is_paused THEN "PresaleIsPaused"
  ELSE IF buyer = payment_wallet THEN "InvalidArgument"
  ELSE "Ok"
BuyErrorNoSelf(rec, buyer, payment_wallet) ==
  IF rec.is_paused THEN "PresaleIsPaused"
  ELSE IF rec.payment_wallet # payment_wallet THEN "InvalidPaymentWallet"
  ELSE "Ok"
BuyErrorSelfFirst(rec, buyer, payment_wallet) ==
  IF rec.is_paused THEN "PresaleIsPaused"
  ELSE IF buyer = payment_wallet THEN "InvalidArgument"
  ELSE IF rec.payment_wallet # payment_wallet THEN "InvalidPaymentWallet"
  ELSE "Ok"
BuyError(rec, buyer, payment_wallet) ==
  IF rec.is_paused THEN "PresaleIsPaused"
  ELSE IF rec.payment_wallet # payment_wallet THEN "InvalidPaymentWallet"
  ELSE IF buyer = payment_wallet THEN "InvalidArgument"
  ELSE "Ok"

buy_tokens(buyer, payment_wallet, sol_amount, stake, evm_address) ==
  LET call(res) == Call("buy_tokens", buyer, payment_wallet, sol_amount, FALSE, res)
      err == BuyError(presale, buyer, payment_wallet)
      terr == TransferError(lamports, buyer, payment_wallet, sol_amount)
  IN  /\ allocated
      /\ IF err # "Ok" THEN Fail(call(err))
         ELSE IF terr # "Ok" THEN Fail(call(terr))
         ELSE /\ lamports' = Transfer(lamports, buyer, payment_wallet, sol_amount)
              /\ log' = <<LogEntry("BuyerLog", buyer, sol_amount, presale.rate, stake, evm_address)>>
              /\ last' = call("Ok")
              /\ UNCHANGED <<allocated, presale, overflow_checks>>

\* withdraw_sol: owner check, then  presale lamports -= amount  and
\* recipient lamports += amount  with the bare operators; the recipient may
\* be the presale account itself, in which case both act on one balance.
withdraw_sol(owner, recipient, amount) ==
  LET call(res) == Call("withdraw_sol", owner, recipient, amount, FALSE, res)
      sub == SubU64(lamports[P], amount)
      afterSub == [lamports EXCEPT ![P] = sub.val]
      add == AddU64(afterSub[recipient], amount)
      afterAdd == [afterSub EXCEPT ![recipient] = add.val]
  IN  /\ allocated
      /\ IF ~IsOwner(presale, owner) THEN Fail(call("Unauthorized"))
         ELSE IF overflow_checks /\ (sub.ovf \/ add.ovf) THEN Fail(call("Panic"))
         ELSE /\ lamports' = afterAdd
              /\ log' = <<>>
              /\ last' = call("Ok")
              /\ UNCHANGED <<allocated, presale, overflow_checks>>

change_rate(owner, new_rate) ==
  LET call(res) == Call("change_rate", owner, NoKey, new_rate, FALSE, res)
  IN  /\ allocated
      /\ IF ~IsOwner(presale, owner) THEN Fail(call("Unauthorized"))
         ELSE /\ presale' = SetRate(presale, new_rate)
              /\ log' = <<>>
              /\ last' = call("Ok")
              /\ UNCHANGED <<allocated, lamports, overflow_checks>>

change_payment_wallet(owner, new_wallet) ==
  LET call(res) == Call("change_payment_wallet", owner, new_wallet, 0, FALSE, res)
  IN  /\ allocated
      /\ IF ~IsOwner(presale, owner) THEN Fail(call("Unauthorized"))
         ELSE /\ presale' = SetPaymentWallet(presale, new_wallet)
              /\ log' = <<>>
              /\ last' = call("Ok")
              /\ UNCHANGED <<allocated, lamports, overflow_checks>>

pause_presale(owner, pause) ==
  LET call(res) == Call("pause_presale", owner, NoKey, 0, pause, res)
  IN  /\ allocated
      /\ IF ~IsOwner(presale, owner) THEN Fail(call("Unauthorized"))
         ELSE /\ presale' = SetPaused(presale, pause)
              /\ log' = <<>>
              /\ last' = call("Ok")
              /\ UNCHANGED <<allocated, lamports, overflow_checks>>

Next ==
  \/ \E o \in Wallets, w \in Keys, r \in Rates : initialize(o, w, r)
  \/ \E b \in Wallets, a \in Amounts : stake_tokens(b, a)
  \/ \E u \in Wallets, e \in EvmAddrs : claim_evm(u, e)
  \/ \E b \in Wallets, w \in Keys, a \in Amounts, s \in BOOLEAN, e \in EvmAddrs :
       buy_tokens(b, w, a, s, e)
  \/ \E o \in Keys, r \in Keys, a \in Amounts : withdraw_sol(o, r, a)
  \/ \E o \in Keys, r \in Rates : change_rate(o, r)
  \/ \E o \in Keys, w \in Keys : change_payment_wallet(o, w)
  \/ \E o \in Keys, p \in BOOLEAN : pause_presale(o, p)

Spec == Init /\ [][Next]_vars

\* ------------------------------------------------------------------ claims
\* Every step of Spec is one instruction, and last' is the record of it, so
\* a property of "a call of op by c" is a property of the steps with
\* last'.op = op and last'.caller = c.

OwnerOnlyOps == {"withdraw_sol", "change_rate", "change_payment_wallet", "pause_presale"}
RecordAndBalancesUnchanged == UNCHANGED <<allocated, presale, lamports>>

\* C1: an owner-only instruction (withdraw_sol, change_rate,
\* change_payment_wallet, pause_presale) signed by anyone but presale.owner
\* fails with Unauthorized and changes no record field and no balance.
C1_NonOwnerRejected ==
  [][(last'.op \in OwnerOnlyOps /\ last'.caller # presale.owner)
       => (last'.result = "Unauthorized" /\ RecordAndBalancesUnchanged)]_vars
\* A non-owner asked for a withdrawal the account could have paid.
C1_Witness ==
  /\ allocated
  /\ last.op = "withdraw_sol" /\ last.caller # presale.owner
  /\ last.amount > 0 /\ last.amount <= lamports[P]
  /\ last.result = "Unauthorized"

\* C2: once the record exists, rate, payment_wallet and is_paused change
\* only in a successful change_rate, change_payment_wallet or pause_presale
\* step (respectively) signed by presale.owner.
C2_FieldsChangeOnlyByOwnerOp ==
  [][allocated =>
       /\ presale'.rate # presale.rate =>
            (last'.op = "change_rate" /\ last'.result = "Ok" /\ last'.caller = presale.owner)
       /\ presale'.payment_wallet # presale.payment_wallet =>
            (last'.op = "change_payment_wallet" /\ last'.result = "Ok"
               /\ last'.caller = presale.owner)
       /\ presale'.is_paused # presale.is_paused =>
            (last'.op = "pause_presale" /\ last'.result = "Ok" /\ last'.caller = presale.owner)]_vars
\* The owner has paused the presale (is_paused starts FALSE, so it changed).
C2_Witness ==
  /\ allocated /\ presale.is_paused
  /\ last.op = "pause_presale" /\ last.result = "Ok" /\ last.caller = presale.owner

\* C3: the owner is the signer of the initialize that created the record,
\* and no later instruction changes it.
C3_OwnerFixedAtCreation ==
  [][/\ (~allocated /\ allocated') =>
          (last'.op = "initialize" /\ presale'.owner = last'.caller)
     /\ allocated => presale'.owner = presale.owner]_vars
\* The owner has since pointed the payment wallet at another identity.
C3_Witness ==
  /\ allocated
  /\ last.op = "change_payment_wallet" /\ last.result = "Ok"
  /\ presale.payment_wallet # presale.owner

\* C4: buy_tokens while is_paused fails with PresaleIsPaused for every buyer,
\* amount and payment wallet, changes no balance and no record field, and
\* logs nothing.
C4_PausedBuyRejected ==
  [][(last'.op = "buy_tokens" /\ presale.is_paused)
       => (last'.result = "PresaleIsPaused" /\ RecordAndBalancesUnchanged /\ log' = <<>>)]_vars
\* A purchase that would otherwise have gone through was stopped by the pause.
C4_Witness ==
  /\ presale.is_paused
  /\ last.op = "buy_tokens" /\ last.result = "PresaleIsPaused"
  /\ last.key = presale.payment_wallet /\ last.caller # last.key
  /\ last.amount > 0 /\ last.amount <= lamports[last.caller]

\* C5 as claimed: buy_tokens with a payment wallet other than
\* presale.payment_wallet fails with InvalidPaymentWallet, paused or not.
C5_Original ==
  [][(last'.op = "buy_tokens" /\ last'.key # presale.payment_wallet)
       => last'.result = "InvalidPaymentWallet"]_vars
\* C5 as amended: buy_tokens with a payment wallet other than
\* presale.payment_wallet always fails and changes nothing: with
\* InvalidPaymentWallet when the record is not paused, with PresaleIsPaused
\* when it is.
C5_WrongWalletRejected ==
  [][(last'.op = "buy_tokens" /\ last'.key # presale.payment_wallet)
       => /\ last'.result = IF presale.is_paused THEN "PresaleIsPaused"
                            ELSE "InvalidPaymentWallet"
          /\ RecordAndBalancesUnchanged /\ log' = <<>>]_vars
\* A funded buyer named the wrong wallet while the presale was active.
C5_Witness ==
  /\ allocated /\ ~presale.is_paused
  /\ last.op = "buy_tokens" /\ last.key # presale.payment_wallet
  /\ last.amount > 0 /\ last.amount <= lamports[last.caller]
  /\ last.result = "InvalidPaymentWallet"

\* C6: buy_tokens with buyer = payment wallet fails for every amount and
\* changes no balance; when the record is not paused and the wallet is the
\* record's, the error is InvalidArgument, which is none of the program's
\* ErrorCode values.
C6_SelfTransferRejected ==
  [][(last'.op = "buy_tokens" /\ last'.caller = last'.key)
       => /\ last'.result # "Ok"
          /\ RecordAndBalancesUnchanged /\ log' = <<>>
          /\ (~presale.is_paused /\ last'.key = presale.payment_wallet)
               => (last'.result = "InvalidArgument" /\ last'.result \notin ErrorCode)]_vars
\* The payment wallet itself tried to buy, with the funds to do it.
C6_Witness ==
  /\ allocated /\ ~presale.is_paused
  /\ last.op = "buy_tokens" /\ last.caller = last.key
  /\ last.key = presale.payment_wallet
  /\ last.amount <= lamports[last.caller]
  /\ last.result = "InvalidArgument"

\* C7: buy_tokens succeeds when the record is not paused, the wallet is the
\* record's, the buyer is not that wallet, the buyer holds at least
\* sol_amount (and the wallet's balance can take it), and only then; a
\* successful buy_tokens takes exactly sol_amount from the
\* buyer, gives exactly sol_amount to the payment wallet, changes no other
\* balance and no record field.
C7_BuyMovesExactlyAmount ==
  [][/\ (last'.op = "buy_tokens" /\ ~presale.is_paused
          /\ last'.key = presale.payment_wallet /\ last'.caller # last'.key
          /\ lamports[last'.caller] >= last'.amount
          /\ lamports[last'.key] + last'.amount <= MaxU64)
         => last'.result = "Ok"
     /\ (last'.op = "buy_tokens" /\ last'.result = "Ok")
       => /\ ~presale.is_paused
          /\ last'.key = presale.payment_wallet
          /\ last'.caller # last'.key
          /\ lamports[last'.caller] >= last'.amount
          /\ lamports'[last'.caller] = lamports[last'.caller] - last'.amount
          /\ lamports'[last'.key] = lamports[last'.key] + last'.amount
          /\ \A k \in Keys \ {last'.caller, last'.key} : lamports'[k] = lamports[k]
          /\ presale' = presale /\ allocated' = allocated]_vars
\* A purchase of a positive amount went through.
C7_Witness ==
  /\ last.op = "buy_tokens" /\ last.result = "Ok" /\ last.amount > 0
  /\ lamports[last.key] >= last.amount

\* C8 as claimed (recipient other than the presale account): withdraw_sol by
\* the owner with amount <= the account's lamports takes exactly amount from
\* it and gives exactly amount to the recipient; with amount above them it
\* returns Underflow and leaves both balances as they were.
C8_Claim ==
  [][(last'.op = "withdraw_sol" /\ last'.caller = presale.owner /\ last'.key # P)
       => IF last'.amount <= lamports[P]
          THEN /\ lamports'[P] = lamports[P] - last'.amount
               /\ lamports'[last'.key] = lamports[last'.key] + last'.amount
          ELSE last'.result = "Underflow" /\ lamports' = lamports]_vars

\* C9 as claimed (recipient other than the presale account): withdraw_sol by
\* the owner fails with Overflow and leaves the balances as they were
\* whenever recipient lamports + amount exceeds u64::MAX.
C9_Claim ==
  [][(last'.op = "withdraw_sol" /\ last'.caller = presale.owner /\ last'.key # P
        /\ lamports[last'.key] + last'.amount > MaxU64)
       => (last'.result = "Overflow" /\ lamports' = lamports)]_vars

\* C10 as claimed: the presale account never holds less than its
\* rent-exempt minimum.
C10_Claim == allocated => lamports[P] >= RentMin

\* C11: initialize on an empty location, by a caller c who can fund the
\* account, creates the record owner = c, rate = rate, payment_wallet =
\* payment_wallet, is_paused = FALSE; initialize on a location that already
\* holds a record fails, whoever calls it and whatever the arguments, and
\* leaves the four fields and every balance as they were.
C11_InitializeOnce ==
  [][last'.op = "initialize"
       => IF allocated
          THEN last'.result # "Ok" /\ RecordAndBalancesUnchanged
          ELSE lamports[last'.caller] + lamports[P] >= RentMin
                 => /\ last'.result = "Ok" /\ allocated'
                    /\ presale' = Presale(last'.caller, last'.amount, last'.key, FALSE)]_vars
\* Someone else tried to initialize again, with other arguments, and failed.
C11_Witness ==
  /\ allocated
  /\ last.op = "initialize" /\ last.result # "Ok"
  /\ last.caller # presale.owner
  /\ last.key # presale.payment_wallet /\ last.amount # presale.rate

\* The purchase that the three checks of buy_tokens and the System Program
\* let through, as seen from the state before it.
ValidPurchase(buyer, wallet, amount) ==
  /\ wallet = presale.payment_wallet /\ buyer # wallet
  /\ lamports[buyer] >= amount /\ lamports[wallet] + amount <= MaxU64

\* What a step does to the pause flag and what the flag does to a purchase;
\* and that the owner can always move the flag to its other value.
PauseSteps ==
     /\ (last'.op = "pause_presale" /\ last'.result = "Ok")
          => presale'.is_paused = last'.flag
     /\ (presale.is_paused
           /\ ~(last'.op = "pause_presale" /\ last'.result = "Ok"
                  /\ last'.caller = presale.owner /\ last'.flag = FALSE))
          => presale'.is_paused
     /\ (last'.op = "buy_tokens" /\ presale.is_paused)
          => last'.result = "PresaleIsPaused"
     /\ (last'.op = "buy_tokens" /\ last'.result = "Ok") => ~presale.is_paused
     /\ (last'.op = "buy_tokens" /\ ~presale.is_paused
           /\ ValidPurchase(last'.caller, last'.key, last'.amount))
          => last'.result = "Ok"
OwnerCanFlipPause ==
  allocated => ENABLED (/\ pause_presale(presale.owner, ~presale.is_paused)
                        /\ presale'.is_paused # presale.is_paused)
\* C12: a successful pause_presale(p) leaves is_paused = p; a paused record
\* stays paused through every step but the owner's successful
\* pause_presale(false); while it is paused every buy_tokens fails with
\* PresaleIsPaused and none succeeds; once it is active again a purchase
\* with the record's wallet and a distinct, funded buyer succeeds; and in
\* every state of the record the owner can move it to the other state.
C12_PauseGating == []OwnerCanFlipPause /\ [][PauseSteps]_vars
\* The owner has paused the record and a funded buyer's purchase with the
\* record's wallet was turned away; the owner can resume it.
C12_Witness ==
  /\ presale.is_paused
  /\ last.op = "buy_tokens" /\ last.result = "PresaleIsPaused"
  /\ ValidPurchase(last.caller, last.key, last.amount)
  /\ ENABLED (pause_presale(presale.owner, FALSE) /\ ~presale'.is_paused)

\* C13 as claimed: a successful change_payment_wallet(D) moves no funds and
\* changes only payment_wallet, to D; from then on every buy_tokens that
\* passes another wallet fails with InvalidPaymentWallet, and, when the
\* record is not paused, one that passes D moves the funds to D.
C13_Original ==
  [][/\ (last'.op = "change_payment_wallet" /\ last'.result = "Ok")
          => (presale' = [presale EXCEPT !.payment_wallet = last'.key]
                /\ lamports' = lamports)
     /\ (last'.op = "buy_tokens" /\ last'.key # presale.payment_wallet)
          => last'.result = "InvalidPaymentWallet"
     /\ (last'.op = "buy_tokens" /\ ~presale.is_paused
           /\ ValidPurchase(last'.caller, last'.key, last'.amount))
          => (last'.result = "Ok"
                /\ lamports'[last'.key] = lamports[last'.key] + last'.amount)]_vars
\* C13 as amended: the same, except that a buy_tokens passing another wallet
\* than the record's current one fails with InvalidPaymentWallet when the
\* record is not paused and with PresaleIsPaused when it is.
C13_WalletChangeImmediate ==
  [][/\ (last'.op = "change_payment_wallet" /\ last'.result = "Ok")
          => (presale' = [presale EXCEPT !.payment_wallet = last'.key]
                /\ lamports' = lamports)
     /\ (last'.op = "buy_tokens" /\ last'.key # presale.payment_wallet)
          => (last'.result = (IF presale.is_paused THEN "PresaleIsPaused"
                              ELSE "InvalidPaymentWallet")
                /\ lamports' = lamports)
     /\ (last'.op = "buy_tokens" /\ ~presale.is_paused
           /\ ValidPurchase(last'.caller, last'.key, last'.amount))
          => (last'.result = "Ok"
                /\ lamports'[last'.key] = lamports[last'.key] + last'.amount)]_vars
\* The owner has just set the wallet to D while the record is active: the
\* very next purchase passing D can succeed and pay D, and one passing
\* any other wallet is refused with InvalidPaymentWallet.
C13_Witness ==
  /\ ~presale.is_paused
  /\ last.op = "change_payment_wallet" /\ last.result = "Ok"
  /\ presale.payment_wallet = last.key
  /\ ENABLED (\E b \in Wallets :
                /\ buy_tokens(b, presale.payment_wallet, 1, FALSE, "")
                /\ last'.result = "Ok"
                /\ lamports'[presale.payment_wallet] = lamports[presale.payment_wallet] + 1)
  /\ \A w \in Keys \ {presale.payment_wallet} :
       ENABLED (\E b \in Wallets :
                  /\ buy_tokens(b, w, 1, FALSE, "")
                  /\ last'.result = "InvalidPaymentWallet")

\* C14: change_rate and change_payment_wallet by the owner succeed whether
\* the record is paused or not, and so does withdraw_sol by the owner of an
\* amount the two balances can take; each changes its own target only:
\* rate, payment_wallet, or the lamports of the presale account and the
\* recipient.
C14_OwnerOpsIgnorePause ==
  [][last'.caller = presale.owner =>
       /\ last'.op = "change_rate"
            => /\ last'.result = "Ok"
               /\ presale' = [presale EXCEPT !.rate = last'.amount]
               /\ lamports' = lamports
       /\ last'.op = "change_payment_wallet"
            => /\ last'.result = "Ok"
               /\ presale' = [presale EXCEPT !.payment_wallet = last'.key]
               /\ lamports' = lamports
       /\ last'.op = "withdraw_sol"
            => /\ presale' = presale
               /\ \A k \in Keys \ {P, last'.key} : lamports'[k] = lamports[k]
               /\ (last'.amount <= lamports[P]
                     /\ (last'.key = P \/ lamports[last'.key] + last'.amount <= MaxU64))
                    => last'.result = "Ok"]_vars
\* The owner withdrew a positive amount while the record was paused.
C14_Witness ==
  /\ presale.is_paused
  /\ last.op = "withdraw_sol" /\ last.caller = presale.owner
  /\ last.result = "Ok" /\ last.amount > 0 /\ last.key # P

\* What the assignment of line 165 gives when it is applied twice, and what
\* one pause_presale step of the owner does.
SetPausedTwice ==
  allocated
    => \A p \in BOOLEAN :
         /\ ENABLED (pause_presale(presale.owner, p) /\ last'.result = "Ok")
         /\ SetPaused(SetPaused(presale, p), p) = SetPaused(presale, p)
         /\ SetPaused(SetPaused(presale, TRUE), FALSE)
              = [presale EXCEPT !.is_paused = FALSE]
SetPausedSteps ==
  (last'.op = "pause_presale" /\ last'.caller = presale.owner)
    => /\ last'.result = "Ok"
       /\ presale' = [presale EXCEPT !.is_paused = last'.flag]
       /\ last'.flag = presale.is_paused => presale' = presale
\* C15: pause_presale(p) by the owner succeeds and sets is_paused to
\* exactly p, leaving owner, rate and payment_wallet alone; repeated on a
\* record that already has is_paused = p it succeeds again and leaves the
\* record as it was; applying it twice gives what applying it once gives,
\* and true followed by false gives is_paused = FALSE.
C15_SetPausedExact == []SetPausedTwice /\ [][SetPausedSteps]_vars
\* The owner has paused the record, and the same call again succeeds and
\* changes nothing at all.
C15_Witness ==
  /\ presale.is_paused
  /\ last.op = "pause_presale" /\ last.flag /\ last.result = "Ok"
  /\ ENABLED (pause_presale(presale.owner, TRUE) /\ last'.result = "Ok"
                /\ presale' = presale)

IntentOps == {"stake_tokens", "claim_evm"}
SpecIntentOps == {"record_purchase_intent", "record_stake_intent", "record_evm_claim"}
\* The handler that carries out an operation of the spec, if there is one.
HandlerOf(op) ==
  CASE op = "record_stake_intent" -> "stake_tokens"
    [] op = "record_evm_claim" -> "claim_evm"
    [] OTHER -> op

\* What stake_tokens and claim_evm do, in every state of the record: any
\* wallet can call them with any amount or address, they succeed, and their
\* one log entry carries the signer and the amount or the address; they
\* change no record field and no balance.
IntentCallsLogOnly ==
  (last'.op \in IntentOps)
       => /\ last'.result = "Ok"
          /\ RecordAndBalancesUnchanged
          /\ Len(log') = 1 /\ log'[1].who = last'.caller
          /\ last'.op = "stake_tokens"
               => (log'[1].kind = "StakeLog" /\ log'[1].amount = last'.amount)
          /\ last'.op = "claim_evm"
               => (log'[1].kind = "ClaimEVMLog" /\ log'[1].text \in EvmAddrs)
IntentCallsEnabled ==
  allocated
       => /\ \A b \in Wallets, a \in Amounts :
               ENABLED (/\ stake_tokens(b, a)
                        /\ log'[1].who = b /\ log'[1].amount = a)
          /\ \A u \in Wallets, e \in EvmAddrs :
               ENABLED (/\ claim_evm(u, e)
                        /\ log'[1].who = u /\ log'[1].text = e)

\* Each of the three operations named has a handler that can be called
\* and logs one entry, in every state of the record.
SpecIntentCallsEnabled ==
  allocated
    => \A op \in SpecIntentOps :
         ENABLED (Next /\ last'.op = HandlerOf(op) /\ last'.result = "Ok"
                    /\ Len(log') = 1)
AnyRateAccepted ==
  allocated
    => \A r \in {0, MaxU64} :
         ENABLED (change_rate(presale.owner, r) /\ presale'.rate = r)
PurchaseLogSteps ==
     /\ (last'.op = "buy_tokens" /\ last'.result = "Ok")
          => /\ Len(log') = 1
             /\ log'[1].kind = "BuyerLog"
             /\ log'[1].who = last'.caller
             /\ log'[1].amount = last'.amount
             /\ log'[1].rate = presale.rate
     /\ (last'.op = "buy_tokens" /\ last'.result # "Ok")
          => (log' = <<>> /\ lamports' = lamports)
     /\ (last'.op = "buy_tokens" /\ lamports[last'.caller] < last'.amount)
          => last'.result # "Ok"
     /\ (last'.op = "change_rate" /\ last'.caller = presale.owner)
          => (last'.result = "Ok" /\ presale'.rate = last'.amount)
\* C17: a successful buy_tokens logs exactly one entry: the buyer,
\* sol_amount and the rate the record holds at that call; a buy_tokens that
\* fails, also for want of funds, logs nothing and changes no balance; and
\* change_rate(r) by the owner makes the rate r, for 0 and u64::MAX alike,
\* so that the next purchase logs r.
C17_PurchaseLog == []AnyRateAccepted /\ [][PurchaseLogSteps]_vars
\* A purchase was logged at the rate u64::MAX; the rate can be set to 0 next.
C17_Witness ==
  /\ last.op = "buy_tokens" /\ last.result = "Ok" /\ last.amount > 0
  /\ Len(log) = 1 /\ log[1].rate = MaxU64 /\ presale.rate = MaxU64
  /\ log[1].who = last.caller /\ log[1].amount = last.amount

\* C18: buy_tokens returns the error of the first check that fails, in the
\* order paused, wrong wallet, self-transfer: PresaleIsPaused whenever the
\* record is paused; InvalidPaymentWallet when it is not paused and the
\* wallet is wrong, also when that wallet is the buyer; InvalidArgument
\* only when it is not paused and the wallet is the record's.
C18_CheckOrder ==
  [][last'.op = "buy_tokens"
       => /\ presale.is_paused => last'.result = "PresaleIsPaused"
          /\ (~presale.is_paused /\ last'.key # presale.payment_wallet)
               => last'.result = "InvalidPaymentWallet"
          /\ last'.result = "InvalidArgument"
               => (~presale.is_paused /\ last'.key = presale.payment_wallet
                     /\ last'.caller = last'.key)
          /\ (~presale.is_paused /\ last'.key = presale.payment_wallet
                /\ last'.caller = last'.key)
               => last'.result = "InvalidArgument"]_vars
\* A buyer passed itself as the wallet, which is not the record's wallet,
\* while the record was active.
C18_Witness ==
  /\ allocated /\ ~presale.is_paused
  /\ last.op = "buy_tokens" /\ last.caller = last.key
  /\ last.key # presale.payment_wallet
  /\ last.result = "InvalidPaymentWallet"

\* The lamports of all the accounts in play: the wallets and the presale
\* account.
RECURSIVE SumOver(_, _)
SumOver(bal, keys) ==
  IF keys = {} THEN 0
  ELSE LET k == CHOOSE x \in keys : TRUE
       IN  bal[k] + SumOver(bal, keys \ {k})
TotalLamports == SumOver(lamports, Keys)
InitialTotal == Cardinality(Wallets) * InitBal
Conserved == TotalLamports = InitialTotal
\* buy_tokens and withdraw_sol change the balances of at most two accounts,
\* and a withdraw_sol to the presale account itself changes none.
MovesBetweenTwoAccounts ==
  /\ last'.op = "buy_tokens"
       => \A k \in Keys \ {last'.caller, last'.key} : lamports'[k] = lamports[k]
  /\ last'.op = "withdraw_sol"
       => \A k \in Keys \ {P, last'.key} : lamports'[k] = lamports[k]
  /\ (last'.op = "withdraw_sol" /\ last'.key = P) => lamports' = lamports
\* C19: in every reachable state the lamports of all accounts add up to
\* what they added up to initially; buy_tokens and withdraw_sol move value
\* between two accounts only, and a withdraw_sol whose recipient is the
\* presale account leaves every balance as it was.
C19_Claim == []Conserved /\ [][MovesBetweenTwoAccounts]_vars

\* A buy_tokens on a record whose payment_wallet is not the presale account
\* leaves the presale account's lamports alone.
BuyLeavesCustodyAlone ==
  (last'.op = "buy_tokens" /\ presale.payment_wallet # P)
    => lamports'[P] = lamports[P]
\* On such a record a successful withdraw_sol to another account pays out
\* no more than the presale account holds, and the recipient gains no more.
WithdrawWithinCustody ==
  (last'.op = "withdraw_sol" /\ last'.result = "Ok" /\ last'.key # P
     /\ presale.payment_wallet # P)
    => /\ last'.amount <= lamports[P]
       /\ lamports'[last'.key] - lamports[last'.key] <= lamports[P]
\* C20: while payment_wallet is not the presale account no buy_tokens
\* raises the presale account's lamports, so what withdraw_sol pays out is
\* bounded by what the presale account holds, not by what buyers paid.
C20_Claim == [][BuyLeavesCustodyAlone /\ WithdrawWithinCustody]_vars
====
